---- MODULE Spec2Model ----
(***************************************************************************)
(* The thread pool of rust-book/c21-web-server (src/lib.rs): ThreadPool,   *)
(* Worker, the mpsc channel of boxed jobs behind Arc<Mutex<Receiver>>, and *)
(* Drop for ThreadPool.  Threads are modelled at the grain of their        *)
(* blocking points: Mutex::lock, Receiver::recv, the call of the job, and  *)
(* JoinHandle::join.  The accept loop of src/main.rs drives the pool in    *)
(* ServerSpec.  Two further programs of the repository have their own      *)
(* variables and specifications: the blog Post of c18-oop-features         *)
(* (PostSpec) and the word printer of other/cli-two-threads (PrinterSpec). *)
(***************************************************************************)
EXTENDS Integers, Sequences, FiniteSets, TLC

\* ------------------------------------------------------------------ bounds
\* Largest size passed to ThreadPool::new (0 is always tried as well).
MaxSize == 2
\* Number of threads that call execute on the shared &ThreadPool.
NumProducers == 2
\* Total number of execute calls over all producers.
MaxJobs == 3
\* Number of times the body of Drop::drop is run on the pool.
MaxDrops == 2
\* Number of method calls made on the blog Post.
MaxOps == 6
\* Number of lines main_loop of cli-two-threads reads from stdin.
MaxLines == 3
\* Number of words the word printer prints.
MaxWords == 2

WorkerIds == 0 .. (MaxSize - 1)
Producers == 1 .. NumProducers
NoWorker == -1

\* A Job is a boxed FnOnce closure (lib.rs:6).  Its identity is the producer
\* and the producer's call number; fails says whether the closure panics.
Job == [p : Producers, n : 1 .. MaxJobs, fails : BOOLEAN]
NoJob == [p |-> 0, n |-> 0, fails |-> FALSE]

VARIABLES
  mainPc,      \* owner thread: position in ThreadPool::new / Drop::drop
  size,        \* argument of ThreadPool::new
  channel,     \* mpsc::channel() has been called
  sender,      \* ThreadPool.sender : Option<Sender<Job>>, "Some" or "None"
  queue,       \* messages in the channel, oldest first
  rxRefs,      \* strong count of Arc<Mutex<Receiver<Job>>>
  lockHolder,  \* worker holding the MutexGuard, or NoWorker
  poisoned,    \* poison flag of the Mutex
  workers,     \* ThreadPool.workers : Vec<Worker>, as the sequence of ids
  wpc,         \* position of every worker thread in its loop
  cur,         \* job a worker has bound in `if let Ok(job) = msg`
  joinsLeft,   \* remaining iterations of the for loop in drop
  closedLen,   \* history: messages in the channel when the sender was dropped
  dropRuns,    \* history: number of times the body of drop has been entered
  ppc,         \* producer threads: "ready" or "panicked"
  nsub,        \* number of execute calls made by each producer
  called,      \* history: jobs passed to execute
  rejected,    \* history: jobs whose execute call panicked
  late,        \* history: jobs passed to execute after the sender was taken
  enqueued,    \* history: jobs sent into the channel, in send order
  received,    \* history: jobs in the order recv returned them
  completed,   \* history: jobs whose closure returned
  failed,      \* history: jobs whose closure panicked
  lost,        \* history: jobs destroyed unrun with the Receiver
  \* c21-web-server/src/main.rs
  listener,    \* TcpListener of main: "none", "bound" or "failed"
  accepted,    \* history: connections yielded by incoming(), in accept order
  \* c18-oop-features/src/state_pattern/oop_implementation/types.rs
  postState,   \* Post.state : Option<Box<dyn State>>, the variant or "None"
  postContent, \* Post.content : String, as the sequence of the texts pushed
  postOps,     \* history: the methods called on the post, in call order
  drafted,     \* history: texts passed to add_text while the post was a Draft
  dropped,     \* history: texts passed to add_text in any other state
  reviewed,    \* history: approve has been called on a PendingReview post
  \* other/cli-two-threads/src/main.rs
  mlPc,        \* main thread: position in main_loop
  tlPc,        \* spawned thread: position in the loop of thread_loop
  msgs,        \* messages in the mpsc channel, oldest first
  firstLetter, \* WordPrinter.first_letter
  mainNap,     \* half seconds left of the sleep of main_loop before exit(0)
  napOver,     \* the 500 ms sleep of the thread has elapsed
  nlines,      \* number of lines main_loop has read
  sentMsgs,    \* history: messages sent by main_loop, in send order
  applied,     \* history: letters passed to change_first_letter, in order
  words,       \* history: first letter of every word printed
  gotCancel,   \* history: the thread has received Cancel
  lateWords    \* history: words printed after Cancel was sent

vars == << mainPc, size, channel, sender, queue, rxRefs, lockHolder, poisoned,
           workers, wpc, cur, joinsLeft, closedLen, dropRuns, ppc, nsub,
           called, rejected, late, enqueued, received, completed, failed,
           lost, listener, accepted, postState, postContent, postOps,
           drafted, dropped, reviewed, mlPc, tlPc, msgs, firstLetter,
           mainNap, napOver, nlines, sentMsgs, applied, words, gotCancel,
           lateWords >>

poolVars ==
  << mainPc, size, channel, sender, workers, joinsLeft, closedLen, dropRuns >>
prodVars == << ppc, nsub, called, rejected, late, enqueued >>
histVars == << received, completed, failed, lost >>
driverVars == << listener, accepted >>
postVars ==
  << postState, postContent, postOps, drafted, dropped, reviewed >>
printerVars ==
  << mlPc, tlPc, msgs, firstLetter, mainNap, napOver, nlines, sentMsgs,
     applied, words, gotCancel, lateWords >>
\* The state of the programs other than the thread pool.
elseVars == << driverVars, postVars, printerVars >>
\* The state of the pool, its callers and its jobs.
threadPoolVars ==
  << poolVars, prodVars, histVars, queue, rxRefs, lockHolder, poisoned, wpc,
     cur >>

Range(s) == { s[i] : i \in 1 .. Len(s) }

Init ==
  /\ mainPc = "start"
  /\ size = 0
  /\ channel = FALSE
  /\ sender = "None"
  /\ queue = << >>
  /\ rxRefs = 0
  /\ lockHolder = NoWorker
  /\ poisoned = FALSE
  /\ workers = << >>
  /\ wpc = [w \in WorkerIds |-> "unspawned"]
  /\ cur = [w \in WorkerIds |-> NoJob]
  /\ joinsLeft = 0
  /\ closedLen = 0
  /\ dropRuns = 0
  /\ ppc = [p \in Producers |-> "ready"]
  /\ nsub = [p \in Producers |-> 0]
  /\ called = {}
  /\ rejected = {}
  /\ late = {}
  /\ enqueued = << >>
  /\ received = << >>
  /\ completed = {}
  /\ failed = {}
  /\ lost = {}
  /\ listener = "none"
  /\ accepted = << >>
  /\ postState = "Draft"
  /\ postContent = << >>
  /\ postOps = << >>
  /\ drafted = << >>
  /\ dropped = {}
  /\ reviewed = FALSE
  /\ mlPc = "read"
  /\ tlPc = "poll"
  /\ msgs = << >>
  /\ firstLetter = "A"
  /\ mainNap = 0
  /\ napOver = FALSE
  /\ nlines = 0
  /\ sentMsgs = << >>
  /\ applied = << >>
  /\ words = << >>
  /\ gotCancel = FALSE
  /\ lateWords = 0

\* --------------------------------------------------------- ThreadPool::new
\* assert!(size > 0)                                          (lib.rs:49)
SizeAcceptedAny(n) == TRUE
SizeAccepted(n) == n > 0

\* for id in 0..size: another worker is still to be pushed     (lib.rs:56)
SpawnMoreShort == Len(workers) < size - 1
SpawnMore == Len(workers) < size

\* ThreadPool::new up to the creation of the channel and the Arc (48-54).
\* A rejected size panics in the assert before anything is created.
New(n) ==
  /\ mainPc = "start"
  /\ size' = n
  /\ IF SizeAccepted(n)
       THEN /\ mainPc' = "spawning"
            /\ channel' = TRUE
            /\ sender' = "Some"
            /\ rxRefs' = 1
       ELSE /\ mainPc' = "new_panicked"
            /\ UNCHANGED << channel, sender, rxRefs >>
  /\ UNCHANGED << queue, lockHolder, poisoned, workers, wpc, cur, joinsLeft,
                  closedLen, dropRuns >>
  /\ UNCHANGED << prodVars, histVars >>
  /\ UNCHANGED elseVars

\* One iteration of the loop: Worker::new(id, Arc::clone(&receiver)) spawns
\* the thread, which starts at the top of its loop, and the Worker is pushed.
SpawnWorker ==
  /\ mainPc = "spawning"
  /\ SpawnMore
  /\ LET id == Len(workers) IN
       /\ workers' = Append(workers, id)
       /\ wpc' = [wpc EXCEPT ![id] = "lock"]
  /\ rxRefs' = rxRefs + 1
  /\ UNCHANGED << mainPc, size, channel, sender, queue, lockHolder, poisoned,
                  cur, joinsLeft, closedLen, dropRuns >>
  /\ UNCHANGED << prodVars, histVars >>
  /\ UNCHANGED elseVars

\* ThreadPool { workers, sender: Some(sender) } is returned; the local
\* `receiver` Arc of new goes out of scope.
NewReturn ==
  /\ mainPc = "spawning"
  /\ ~SpawnMore
  /\ mainPc' = "ready"
  /\ rxRefs' = rxRefs - 1
  /\ UNCHANGED << size, channel, sender, queue, lockHolder, poisoned, workers,
                  wpc, cur, joinsLeft, closedLen, dropRuns >>
  /\ UNCHANGED << prodVars, histVars >>
  /\ UNCHANGED elseVars

\* ----------------------------------------------------- ThreadPool::execute
\* Sender::send puts the message at the tail of the channel.
QueuePushFront(q, j) == << j >> \o q
\* A send that is not atomic among producers: it overwrites the message
\* another producer has just queued.
QueuePushRacy(q, j) ==
  IF q # << >> /\ q[Len(q)].p # j.p
    THEN [q EXCEPT ![Len(q)] = j]
    ELSE Append(q, j)
QueuePush(q, j) == Append(q, j)

\* The pool can be named by a caller: it has been returned by new and its
\* destructor has not returned.  Safe Rust only lets execute (&self) run
\* while mainPc = "ready"; the call during drop is the body of execute
\* evaluated with the sender already taken.
PoolExists == mainPc \in {"ready", "joining"}

TotalCalls == Cardinality(called)

\* execute silently ignoring a missing sender or a failed send.
ExecuteSilent(p, f) ==
  /\ PoolExists
  /\ ppc[p] = "ready"
  /\ TotalCalls < MaxJobs
  /\ LET job == [p |-> p, n |-> nsub[p] + 1, fails |-> f] IN
       /\ called' = called \cup {job}
       /\ nsub' = [nsub EXCEPT ![p] = @ + 1]
       /\ late' = IF sender = "None" THEN late \cup {job} ELSE late
       /\ IF sender = "None" \/ rxRefs = 0
            THEN UNCHANGED << queue, enqueued >>
            ELSE /\ queue' = QueuePush(queue, job)
                 /\ enqueued' = Append(enqueued, job)
       /\ UNCHANGED << ppc, rejected >>
  /\ UNCHANGED << poolVars, histVars, rxRefs, lockHolder, poisoned, wpc, cur >>
  /\ UNCHANGED elseVars

\* execute on a channel of capacity 1 (mpsc::sync_channel(1)): send waits
\* while a message is queued.
ExecuteBounded(p, f) ==
  /\ PoolExists
  /\ ppc[p] = "ready"
  /\ TotalCalls < MaxJobs
  /\ LET job == [p |-> p, n |-> nsub[p] + 1, fails |-> f] IN
       /\ called' = called \cup {job}
       /\ nsub' = [nsub EXCEPT ![p] = @ + 1]
       /\ late' = IF sender = "None" THEN late \cup {job} ELSE late
       /\ IF sender = "None" \/ rxRefs = 0
            THEN /\ ppc' = [ppc EXCEPT ![p] = "panicked"]
                 /\ rejected' = rejected \cup {job}
                 /\ UNCHANGED << queue, enqueued >>
            ELSE /\ Len(queue) < 1
                 /\ queue' = QueuePush(queue, job)
                 /\ enqueued' = Append(enqueued, job)
                 /\ UNCHANGED << ppc, rejected >>
  /\ UNCHANGED << poolVars, histVars, rxRefs, lockHolder, poisoned, wpc, cur >>
  /\ UNCHANGED elseVars

\* execute on a channel whose send does not notice that the Receiver is
\* gone: the job is queued although no worker is left to receive it.
ExecuteIntoVoid(p, f) ==
  /\ PoolExists
  /\ ppc[p] = "ready"
  /\ TotalCalls < MaxJobs
  /\ LET job == [p |-> p, n |-> nsub[p] + 1, fails |-> f] IN
       /\ called' = called \cup {job}
       /\ nsub' = [nsub EXCEPT ![p] = @ + 1]
       /\ late' = IF sender = "None" THEN late \cup {job} ELSE late
       /\ IF sender = "None"
            THEN /\ ppc' = [ppc EXCEPT ![p] = "panicked"]
                 /\ rejected' = rejected \cup {job}
                 /\ UNCHANGED << queue, enqueued >>
            ELSE /\ queue' = QueuePush(queue, job)
                 /\ enqueued' = Append(enqueued, job)
                 /\ UNCHANGED << ppc, rejected >>
  /\ UNCHANGED << poolVars, histVars, rxRefs, lockHolder, poisoned, wpc, cur >>
  /\ UNCHANGED elseVars

\* self.sender.as_ref().unwrap().send(job).unwrap()            (lib.rs:66-68)
\* unwrap panics on a None sender; send returns Err when the Receiver has
\* been destroyed, and the second unwrap panics.  The channel is unbounded,
\* so send never blocks.
Execute(p, f) ==
  /\ PoolExists
  /\ ppc[p] = "ready"
  /\ TotalCalls < MaxJobs
  /\ LET job == [p |-> p, n |-> nsub[p] + 1, fails |-> f] IN
       /\ called' = called \cup {job}
       /\ nsub' = [nsub EXCEPT ![p] = @ + 1]
       /\ late' = IF sender = "None" THEN late \cup {job} ELSE late
       /\ IF sender = "None" \/ rxRefs = 0
            THEN /\ ppc' = [ppc EXCEPT ![p] = "panicked"]
                 /\ rejected' = rejected \cup {job}
                 /\ UNCHANGED << queue, enqueued >>
            ELSE /\ queue' = QueuePush(queue, job)
                 /\ enqueued' = Append(enqueued, job)
                 /\ UNCHANGED << ppc, rejected >>
  /\ UNCHANGED << poolVars, histVars, rxRefs, lockHolder, poisoned, wpc, cur >>
  /\ UNCHANGED elseVars

\* ------------------------------------------------------ Worker thread loop
\* Receiver::recv returns Ok(oldest message) while a message is queued, Err
\* once the channel is empty and every Sender is gone, and blocks otherwise.
QueueFront(q) == Head(q)

QueuePopKeep(q) == q
QueuePop(q) == Tail(q)

RecvClosedEarly(q, snd) == snd = "None"
RecvClosed(q, snd) == q = << >> /\ snd = "None"

\* The closure of a worker thread ends (by break or by unwinding): its Arc
\* clone is dropped, and the last clone destroys the Mutex, the Receiver and
\* every message still in the channel.
ThreadExit ==
  /\ rxRefs' = rxRefs - 1
  /\ IF rxRefs = 1
       THEN /\ queue' = << >>
            /\ lost' = lost \cup Range(queue)
       ELSE UNCHANGED << queue, lost >>

\* receiver.lock().expect(..)                                 (lib.rs:17-19)
\* lock blocks while another worker holds the guard; on a poisoned mutex it
\* returns Err and expect panics, which ends the thread.
Lock(w) ==
  /\ wpc[w] = "lock"
  /\ lockHolder = NoWorker
  /\ IF poisoned
       THEN /\ wpc' = [wpc EXCEPT ![w] = "panicked"]
            /\ ThreadExit
            /\ UNCHANGED lockHolder
       ELSE /\ wpc' = [wpc EXCEPT ![w] = "recv"]
            /\ lockHolder' = w
            /\ UNCHANGED << rxRefs, queue, lost >>
  /\ UNCHANGED << poolVars, prodVars, poisoned, cur, received, completed,
                  failed >>
  /\ UNCHANGED elseVars

\* A receive from a channel that hands out the newest message first.
RecvNewest(w) ==
  /\ wpc[w] = "recv"
  /\ lockHolder = w
  /\ lockHolder' = NoWorker
  /\ IF RecvClosed(queue, sender)
       THEN /\ wpc' = [wpc EXCEPT ![w] = "done"]
            /\ ThreadExit
            /\ UNCHANGED << cur, received >>
       ELSE /\ queue # << >>
            /\ cur' = [cur EXCEPT ![w] = queue[Len(queue)]]
            /\ queue' = SubSeq(queue, 1, Len(queue) - 1)
            /\ received' = Append(received, queue[Len(queue)])
            /\ wpc' = [wpc EXCEPT ![w] = "run"]
            /\ UNCHANGED << rxRefs, lost >>
  /\ UNCHANGED << poolVars, prodVars, poisoned, completed, failed >>
  /\ UNCHANGED elseVars

\* A receive whose guard outlives the let statement: the lock stays held
\* while the job runs.
RecvHoldLock(w) ==
  /\ wpc[w] = "recv"
  /\ lockHolder = w
  /\ IF RecvClosed(queue, sender)
       THEN /\ wpc' = [wpc EXCEPT ![w] = "done"]
            /\ lockHolder' = NoWorker
            /\ ThreadExit
            /\ UNCHANGED << cur, received >>
       ELSE /\ queue # << >>
            /\ cur' = [cur EXCEPT ![w] = QueueFront(queue)]
            /\ queue' = QueuePop(queue)
            /\ received' = Append(received, QueueFront(queue))
            /\ wpc' = [wpc EXCEPT ![w] = "run"]
            /\ UNCHANGED << lockHolder, rxRefs, lost >>
  /\ UNCHANGED << poolVars, prodVars, poisoned, completed, failed >>
  /\ UNCHANGED elseVars

\* .recv() under the guard, the end of the let statement (the temporary
\* guard is dropped, which unlocks), and the if let on the result
\* (lib.rs:20-28).  Ok(job) binds the job, Err breaks out of the loop.
Recv(w) ==
  /\ wpc[w] = "recv"
  /\ lockHolder = w
  /\ lockHolder' = NoWorker
  /\ IF RecvClosed(queue, sender)
       THEN /\ wpc' = [wpc EXCEPT ![w] = "done"]
            /\ ThreadExit
            /\ UNCHANGED << cur, received >>
       ELSE /\ queue # << >>
            /\ cur' = [cur EXCEPT ![w] = QueueFront(queue)]
            /\ queue' = QueuePop(queue)
            /\ received' = Append(received, QueueFront(queue))
            /\ wpc' = [wpc EXCEPT ![w] = "run"]
            /\ UNCHANGED << rxRefs, lost >>
  /\ UNCHANGED << poolVars, prodVars, poisoned, completed, failed >>
  /\ UNCHANGED elseVars

\* A worker that does not wait for the closure: it hands the job to a
\* detached thread and goes back to the top of its loop.
FinishDetached(w) ==
  /\ wpc[w] = "run"
  /\ cur' = [cur EXCEPT ![w] = NoJob]
  /\ wpc' = [wpc EXCEPT ![w] = "lock"]
  /\ UNCHANGED << completed, failed, poisoned, lockHolder, rxRefs, queue,
                  lost >>
  /\ UNCHANGED << poolVars, prodVars, received >>
  /\ UNCHANGED elseVars

\* job() returns or panics                                      (lib.rs:24)
\* There is no catch_unwind around the call: a panic of the closure unwinds
\* the thread.  A MutexGuard alive during unwinding poisons the mutex.
Finish(w) ==
  /\ wpc[w] = "run"
  /\ cur' = [cur EXCEPT ![w] = NoJob]
  /\ IF cur[w].fails
       THEN /\ wpc' = [wpc EXCEPT ![w] = "panicked"]
            /\ failed' = failed \cup {cur[w]}
            /\ poisoned' = (poisoned \/ lockHolder = w)
            /\ lockHolder' = IF lockHolder = w THEN NoWorker ELSE lockHolder
            /\ ThreadExit
            /\ UNCHANGED completed
       ELSE /\ wpc' = [wpc EXCEPT ![w] = "lock"]
            /\ completed' = completed \cup {cur[w]}
            /\ UNCHANGED << failed, poisoned, lockHolder, rxRefs, queue, lost >>
  /\ UNCHANGED << poolVars, prodVars, received >>
  /\ UNCHANGED elseVars

\* ------------------------------------------------- Drop for ThreadPool::drop
\* JoinHandle::join returns once the thread has ended: Ok after a normal
\* return of its closure, Err after a panic.
Terminated(w) == wpc[w] \in {"done", "panicked"}

JoinableAny(w) == TRUE
Joinable(w) == Terminated(w)

\* A drop that unwraps the taken sender (self.sender.take().unwrap()): it
\* panics when the sender is already gone.
DropBeginUnwrap ==
  /\ \/ mainPc = "ready"
     \/ mainPc = "returned" /\ dropRuns < MaxDrops
  /\ sender' = "None"
  /\ mainPc' = IF sender = "Some" THEN "joining" ELSE "drop_panicked"
  /\ joinsLeft' = Len(workers)
  /\ closedLen' = IF sender = "Some" THEN Len(queue) ELSE closedLen
  /\ dropRuns' = dropRuns + 1
  /\ UNCHANGED << size, channel, workers, queue, rxRefs, lockHolder, poisoned,
                  wpc, cur >>
  /\ UNCHANGED << prodVars, histVars >>
  /\ UNCHANGED elseVars

\* A drop that goes on to join the workers with the sender still in place.
DropBeginKeepSender ==
  /\ \/ mainPc = "ready"
     \/ mainPc = "returned" /\ dropRuns < MaxDrops
  /\ mainPc' = "joining"
  /\ joinsLeft' = Len(workers)
  /\ dropRuns' = dropRuns + 1
  /\ UNCHANGED << sender, closedLen >>
  /\ UNCHANGED << size, channel, workers, queue, rxRefs, lockHolder, poisoned,
                  wpc, cur >>
  /\ UNCHANGED << prodVars, histVars >>
  /\ UNCHANGED elseVars

\* drop(self.sender.take()) and the evaluation of the loop range
\* 0..self.workers.len()                                      (lib.rs:74-75)
\* take() leaves None in the field; dropping a Some(sender) closes the
\* channel, dropping None does nothing.  The body is entered when the pool
\* is destroyed, and may be entered again on the pool it has left behind.
DropBegin ==
  /\ \/ mainPc = "ready"
     \/ mainPc = "returned" /\ dropRuns < MaxDrops
  /\ sender' = "None"
  /\ mainPc' = "joining"
  /\ joinsLeft' = Len(workers)
  /\ closedLen' = IF sender = "Some" THEN Len(queue) ELSE closedLen
  /\ dropRuns' = dropRuns + 1
  /\ UNCHANGED << size, channel, workers, queue, rxRefs, lockHolder, poisoned,
                  wpc, cur >>
  /\ UNCHANGED << prodVars, histVars >>
  /\ UNCHANGED elseVars

\* One iteration: self.workers.pop() takes the last worker and
\* thread.join().unwrap() waits for it.  unwrap panics on Err; the panic
\* leaves drop and the remaining JoinHandles are released unjoined.
Join ==
  /\ mainPc = "joining"
  /\ joinsLeft > 0
  /\ IF workers = << >>
       THEN /\ joinsLeft' = joinsLeft - 1
            /\ UNCHANGED << mainPc, workers >>
       ELSE LET w == workers[Len(workers)] IN
              /\ Joinable(w)
              /\ IF wpc[w] = "panicked"
                   THEN /\ mainPc' = "drop_panicked"
                        /\ workers' = << >>
                        /\ UNCHANGED joinsLeft
                   ELSE /\ workers' = SubSeq(workers, 1, Len(workers) - 1)
                        /\ joinsLeft' = joinsLeft - 1
                        /\ UNCHANGED mainPc
  /\ UNCHANGED << size, channel, sender, queue, rxRefs, lockHolder, poisoned,
                  wpc, cur, closedLen, dropRuns >>
  /\ UNCHANGED << prodVars, histVars >>
  /\ UNCHANGED elseVars

\* The loop is exhausted and drop returns                       (lib.rs:81)
DropReturn ==
  /\ mainPc = "joining"
  /\ joinsLeft = 0
  /\ mainPc' = "returned"
  /\ UNCHANGED << size, channel, sender, workers, joinsLeft, queue, rxRefs,
                  lockHolder, poisoned, wpc, cur, closedLen, dropRuns >>
  /\ UNCHANGED << prodVars, histVars >>
  /\ UNCHANGED elseVars

\* ------------------------------------------------------------ specification
Next ==
  \/ \E n \in 0 .. MaxSize : New(n)
  \/ SpawnWorker
  \/ NewReturn
  \/ \E p \in Producers, f \in BOOLEAN : Execute(p, f)
  \/ \E w \in WorkerIds : Lock(w)
  \/ \E w \in WorkerIds : Recv(w)
  \/ \E w \in WorkerIds : Finish(w)
  \/ DropBegin
  \/ Join
  \/ DropReturn

Spec == Init /\ [][Next]_vars

\* Every worker is an OS thread and drop runs on the owner thread: a thread
\* that can take a step eventually takes it, and a job that has been called
\* ends.  Nothing forces new, execute or the start of drop to happen.
FairSpec ==
  /\ Spec
  /\ \A w \in WorkerIds :
       WF_vars(Lock(w)) /\ WF_vars(Recv(w)) /\ WF_vars(Finish(w))
  /\ WF_vars(Join)
  /\ WF_vars(DropReturn)

\* The scheduling of the worker threads alone: a worker that can take the
\* lock or return from recv eventually does.  Nothing is assumed about the
\* jobs: a closure may run forever.
WorkerFairSpec ==
  /\ Spec
  /\ \A w \in WorkerIds : WF_vars(Lock(w)) /\ WF_vars(Recv(w))

TypeOK ==
  /\ mainPc \in {"start", "spawning", "ready", "joining", "returned",
                 "new_panicked", "drop_panicked"}
  /\ size \in 0 .. MaxSize
  /\ channel \in BOOLEAN
  /\ sender \in {"Some", "None"}
  /\ rxRefs \in 0 .. (MaxSize + 1)
  /\ lockHolder \in WorkerIds \cup {NoWorker}
  /\ poisoned \in BOOLEAN
  /\ wpc \in [WorkerIds -> {"unspawned", "lock", "recv", "run", "done",
                            "panicked"}]
  /\ joinsLeft \in 0 .. MaxSize
  /\ dropRuns \in 0 .. MaxDrops
  /\ ppc \in [Producers -> {"ready", "panicked"}]
  /\ called \subseteq Job
  /\ Range(queue) \subseteq Job
  /\ listener \in {"none", "bound", "failed"}
  /\ Len(accepted) <= MaxJobs
  /\ \A i \in 1 .. Len(accepted) : accepted[i] \in BOOLEAN
  /\ postState \in {"Draft", "PendingReview", "Published", "None"}
  /\ Len(postOps) <= MaxOps
  /\ Len(postContent) <= MaxOps
  /\ reviewed \in BOOLEAN
  /\ mlPc \in {"read", "nap", "exit_now", "exit0", "exit1", "panicked"}
  /\ tlPc \in {"poll", "print", "nap", "done", "killed"}
  /\ firstLetter \in {"A", "E", "I", "O", "U"}
  /\ mainNap \in 0 .. 2
  /\ napOver \in BOOLEAN
  /\ nlines \in 0 .. MaxLines
  /\ Len(msgs) <= MaxLines
  /\ Len(words) <= MaxWords
  /\ gotCancel \in BOOLEAN
  /\ lateWords \in 0 .. MaxWords

\* ------------------------------------------- main of c21-web-server (main.rs)
\* The main thread is the accept driver and the only caller of execute.
Driver == 1

\* The driver holds a TcpStream that it has not yet moved into a job: it is
\* between `let stream = stream.unwrap()` and the call of execute.
StreamHeld == Len(accepted) > nsub[Driver]

\* TcpListener::bind("127.0.0.1:7878").unwrap()                 (main.rs:11)
\* A failed bind panics in main before the pool exists.
Bind(ok) ==
  /\ listener = "none"
  /\ listener' = IF ok THEN "bound" ELSE "failed"
  /\ UNCHANGED << accepted, postVars, printerVars >>
  /\ UNCHANGED << poolVars, prodVars, histVars, queue, rxRefs, lockHolder,
                  poisoned, wpc, cur >>

\* ThreadPool::new(4)                                           (main.rs:12)
\* main passes 4; the driver is run over every pool size the bound admits.
ServerNew(n) ==
  /\ listener = "bound"
  /\ New(n)

\* A driver that takes the next connection while it still holds one: only
\* the latest stream is moved into the next job.
AcceptEager(ok, f) ==
  /\ listener = "bound"
  /\ mainPc = "ready"
  /\ ppc[Driver] = "ready"
  /\ Len(accepted) < MaxJobs
  /\ IF ok
       THEN /\ accepted' = Append(accepted, f)
            /\ UNCHANGED ppc
       ELSE /\ ppc' = [ppc EXCEPT ![Driver] = "panicked"]
            /\ UNCHANGED accepted
  /\ UNCHANGED << listener, postVars, printerVars >>
  /\ UNCHANGED << poolVars, histVars, queue, rxRefs, lockHolder, poisoned,
                  wpc, cur, nsub, called, rejected, late, enqueued >>

\* One step of `for stream in listener.incoming()` and
\* `let stream = stream.unwrap()`                            (main.rs:14-15)
\* incoming() blocks until a connection attempt arrives and never ends; an
\* Err item panics in main.  f says whether handle_connection panics on the
\* connection (its unwraps at main.rs:27, 31, 40 and 44).
Accept(ok, f) ==
  /\ listener = "bound"
  /\ mainPc = "ready"
  /\ ppc[Driver] = "ready"
  /\ ~StreamHeld
  /\ Len(accepted) < MaxJobs
  /\ IF ok
       THEN /\ accepted' = Append(accepted, f)
            /\ UNCHANGED ppc
       ELSE /\ ppc' = [ppc EXCEPT ![Driver] = "panicked"]
            /\ UNCHANGED accepted
  /\ UNCHANGED << listener, postVars, printerVars >>
  /\ UNCHANGED << poolVars, histVars, queue, rxRefs, lockHolder, poisoned,
                  wpc, cur, nsub, called, rejected, late, enqueued >>

\* pool.execute(|| { handle_connection(stream); })           (main.rs:17-19)
\* The closure takes the stream the driver holds.
Submit ==
  /\ mainPc = "ready"
  /\ StreamHeld
  /\ Execute(Driver, accepted[Len(accepted)])

\* A panic in main (of stream.unwrap() or of execute) unwinds main, which
\* drops the pool.
Unwind ==
  /\ mainPc = "ready"
  /\ ppc[Driver] = "panicked"
  /\ DropBegin

ServerNext ==
  \/ \E ok \in BOOLEAN : Bind(ok)
  \/ \E n \in 1 .. MaxSize : ServerNew(n)
  \/ SpawnWorker
  \/ NewReturn
  \/ \E ok, f \in BOOLEAN : Accept(ok, f)
  \/ Submit
  \/ \E w \in WorkerIds : Lock(w)
  \/ \E w \in WorkerIds : Recv(w)
  \/ \E w \in WorkerIds : Finish(w)
  \/ Unwind
  \/ Join
  \/ DropReturn

ServerSpec == Init /\ [][ServerNext]_vars

\* ------------------- blog Post of c18-oop-features (state_pattern, types.rs)
\* enum PostState { Draft, PendingReview, Published }        (types.rs:59-63)
PostStates == {"Draft", "PendingReview", "Published"}
\* The state field holds None: the Option has been taken and not put back.
NoState == "None"

\* PostState::is_editable                                    (types.rs:66-68)
IsEditableAlways(st) == TRUE
IsEditable(st) == st = "Draft"

\* PostState::request_review                                 (types.rs:70-75)
StateRequestReview(st) == IF st = "Draft" THEN "PendingReview" ELSE st

\* PostState::approve                                        (types.rs:77-82)
StateApprove(st) == IF st = "PendingReview" THEN "Published" ELSE st

\* PostState::reject                                         (types.rs:84-89)
StateRejectAny(st) == "Draft"
StateReject(st) == IF st = "PendingReview" THEN "Draft" ELSE st

\* PostState::content                                        (types.rs:91-96)
\* A String is the sequence of its characters; "" is the empty sequence.
StateContentAlways(st, text) == text
StateContent(st, text) == IF st = "Published" THEN text ELSE << >>

\* Post::content: self.state.as_ref().unwrap().content(self) (types.rs:20-22)
PostContent == StateContent(postState, postContent)

\* The text passed by the next call of add_text: one character that no
\* other call passes, so that every text can be told apart in the content.
NextText == << Len(postOps) + 1 >>

\* Post::add_text                                            (types.rs:14-18)
\* unwrap needs the state to be in place; push_str appends the text.
AddText ==
  /\ Len(postOps) < MaxOps
  /\ postState # NoState
  /\ postContent' = IF IsEditable(postState)
                      THEN postContent \o NextText
                      ELSE postContent
  /\ drafted' = IF postState = "Draft" THEN drafted \o NextText ELSE drafted
  /\ dropped' = IF postState = "Draft"
                  THEN dropped
                  ELSE dropped \cup { NextText[1] }
  /\ postOps' = Append(postOps, "add_text")
  /\ UNCHANGED << postState, reviewed >>
  /\ UNCHANGED << threadPoolVars, driverVars, printerVars >>

\* Post::request_review                                      (types.rs:24-28)
\* if let Some(s) = self.state.take() { self.state = Some(s.request_review()) }
RequestReview ==
  /\ Len(postOps) < MaxOps
  /\ postState' = IF postState # NoState
                    THEN StateRequestReview(postState)
                    ELSE NoState
  /\ postOps' = Append(postOps, "request_review")
  /\ UNCHANGED << postContent, drafted, dropped, reviewed >>
  /\ UNCHANGED << threadPoolVars, driverVars, printerVars >>

\* Post::approve                                             (types.rs:30-34)
Approve ==
  /\ Len(postOps) < MaxOps
  /\ postState' = IF postState # NoState
                    THEN StateApprove(postState)
                    ELSE NoState
  /\ reviewed' = (reviewed \/ postState = "PendingReview")
  /\ postOps' = Append(postOps, "approve")
  /\ UNCHANGED << postContent, drafted, dropped >>
  /\ UNCHANGED << threadPoolVars, driverVars, printerVars >>

\* Post::reject                                              (types.rs:36-40)
Reject ==
  /\ Len(postOps) < MaxOps
  /\ postState' = IF postState # NoState
                    THEN StateReject(postState)
                    ELSE NoState
  /\ postOps' = Append(postOps, "reject")
  /\ UNCHANGED << postContent, drafted, dropped, reviewed >>
  /\ UNCHANGED << threadPoolVars, driverVars, printerVars >>

\* A client of the post, such as blog_post_oop (mod.rs:5-23), calls the four
\* methods in any order on the post that Post::new has returned.
PostNext ==
  \/ AddText
  \/ RequestReview
  \/ Approve
  \/ Reject

PostSpec == Init /\ [][PostNext]_vars

\* --------------------------- word printer of other/cli-two-threads (main.rs)
\* enum FirstLetter { A, E, I, O, U }                  (word_printer.rs:5-11)
Letters == {"A", "E", "I", "O", "U"}
\* MyMessage::Cancel(); a MyMessage::Letter(l) is the letter l (main.rs:11-14)
Cancel == "Cancel"

\* What one iteration of main_loop gets from stdin: a line that from_str
\* accepts (the letter), any other line, or an Err of read_line.
Lines == Letters \cup {"other", "error"}

\* thread::sleep(Duration::from_secs(1)) of main_loop, counted in sleeps of
\* the thread (Duration::from_millis(500), main.rs:48)         (main.rs:80)
MainNapTicks == 2

\* The Sender is dropped.  main_loop owns tx and never returns: it loops
\* until it calls process::exit, which runs no destructor.
TxDropped == FALSE

\* process::exit ends the process and with it the spawned thread, wherever
\* it is; a thread that has left its loop has already returned.
ThreadAtExit == IF tlPc = "done" THEN "done" ELSE "killed"

CancelSent == Cancel \in Range(sentMsgs)

\* One iteration of the loop of main_loop                    (main.rs:62-84)
\* read_line, then from_str on the trimmed line, then the send.  unwrap
\* panics when send fails, which it does once the Receiver is gone.
ReadLine(line) ==
  /\ mlPc = "read"
  /\ nlines < MaxLines
  /\ nlines' = nlines + 1
  /\ IF tlPc = "done"
       THEN /\ mlPc' = "panicked"
            /\ UNCHANGED << msgs, sentMsgs, mainNap >>
       ELSE LET msg == IF line \in Letters THEN line ELSE Cancel IN
              /\ msgs' = Append(msgs, msg)
              /\ sentMsgs' = Append(sentMsgs, msg)
              /\ mlPc' = CASE line \in Letters -> "read"
                           [] line = "error" -> "exit_now"
                           [] OTHER -> "nap"
              /\ mainNap' = IF line = "other" THEN MainNapTicks ELSE mainNap
  /\ UNCHANGED << tlPc, firstLetter, napOver, applied, words, gotCancel,
                  lateWords >>
  /\ UNCHANGED << threadPoolVars, driverVars, postVars >>

\* eprintln and process::exit(1) after a failed read_line     (main.rs:67-68)
ExitNow ==
  /\ mlPc = "exit_now"
  /\ mlPc' = "exit1"
  /\ tlPc' = ThreadAtExit
  /\ UNCHANGED << msgs, firstLetter, mainNap, napOver, nlines, sentMsgs,
                  applied, words, gotCancel, lateWords >>
  /\ UNCHANGED << threadPoolVars, driverVars, postVars >>

\* Half a second of the sleep of main_loop passes              (main.rs:80)
\* The steps of the thread other than its sleep take no time against the
\* sleeps: time passes only while the thread sleeps or has returned, and a
\* sleep of the thread that was under way is over after half a second.
NapTick ==
  /\ mlPc = "nap"
  /\ mainNap > 0
  /\ tlPc = "done" \/ (tlPc = "nap" /\ ~napOver)
  /\ mainNap' = mainNap - 1
  /\ napOver' = (tlPc = "nap")
  /\ UNCHANGED << mlPc, tlPc, msgs, firstLetter, nlines, sentMsgs, applied,
                  words, gotCancel, lateWords >>
  /\ UNCHANGED << threadPoolVars, driverVars, postVars >>

\* The sleep of main_loop is over: process::exit(0)            (main.rs:81)
ExitAfterNap ==
  /\ mlPc = "nap"
  /\ mainNap = 0
  /\ mlPc' = "exit0"
  /\ tlPc' = ThreadAtExit
  /\ UNCHANGED << msgs, firstLetter, mainNap, napOver, nlines, sentMsgs,
                  applied, words, gotCancel, lateWords >>
  /\ UNCHANGED << threadPoolVars, driverVars, postVars >>

\* rx.try_recv() and the match on its result                 (main.rs:31-56)
\* Ok(Cancel) and Err(Disconnected) clear keep_running, which ends the loop
\* and the thread; Ok(Letter) changes the first letter and polls again;
\* Err(Empty) goes on to print a word.
Poll ==
  /\ tlPc = "poll"
  /\ IF msgs # << >>
       THEN /\ msgs' = Tail(msgs)
            /\ IF Head(msgs) = Cancel
                 THEN /\ tlPc' = "done"
                      /\ gotCancel' = TRUE
                      /\ UNCHANGED << firstLetter, applied >>
                 ELSE /\ firstLetter' = Head(msgs)
                      /\ applied' = Append(applied, Head(msgs))
                      /\ UNCHANGED << tlPc, gotCancel >>
       ELSE IF TxDropped
              THEN /\ tlPc' = "done"
                   /\ UNCHANGED << msgs, firstLetter, applied, gotCancel >>
              ELSE /\ Len(words) < MaxWords
                   /\ tlPc' = "print"
                   /\ UNCHANGED << msgs, firstLetter, applied, gotCancel >>
  /\ UNCHANGED << mlPc, mainNap, napOver, nlines, sentMsgs, words, lateWords >>
  /\ UNCHANGED << threadPoolVars, driverVars, postVars >>

\* word_printer.print_word() and the start of the sleep      (main.rs:47-48)
\* The word is a random one of the list of the first letter
\* (word_printer.rs:36-50); it is recorded by that letter.
PrintWord ==
  /\ tlPc = "print"
  /\ words' = Append(words, firstLetter)
  /\ lateWords' = IF CancelSent THEN lateWords + 1 ELSE lateWords
  /\ tlPc' = "nap"
  /\ napOver' = FALSE
  /\ UNCHANGED << mlPc, msgs, firstLetter, mainNap, nlines, sentMsgs, applied,
                  gotCancel >>
  /\ UNCHANGED << threadPoolVars, driverVars, postVars >>

\* thread::sleep(Duration::from_millis(500)) returns           (main.rs:48)
\* While main_loop is not in its own sleep any time may pass.
Wake ==
  /\ tlPc = "nap"
  /\ napOver \/ mlPc # "nap"
  /\ tlPc' = "poll"
  /\ UNCHANGED << mlPc, msgs, firstLetter, mainNap, napOver, nlines, sentMsgs,
                  applied, words, gotCancel, lateWords >>
  /\ UNCHANGED << threadPoolVars, driverVars, postVars >>

PrinterNext ==
  \/ \E line \in Lines : ReadLine(line)
  \/ ExitNow
  \/ NapTick
  \/ ExitAfterNap
  \/ Poll
  \/ PrintWord
  \/ Wake

PrinterSpec == Init /\ [][PrinterNext]_vars

\* The spawned thread is an OS thread and main_loop runs on the main thread:
\* each goes on whenever it can, and time passes.  Nothing makes a line
\* arrive on stdin.
FairPrinterSpec ==
  /\ PrinterSpec
  /\ WF_vars(Poll) /\ WF_vars(PrintWord) /\ WF_vars(Wake)
  /\ WF_vars(ExitNow) /\ WF_vars(NapTick) /\ WF_vars(ExitAfterNap)

\* ------------------------------------------------------------------ claims
Spawned == { w \in WorkerIds : wpc[w] # "unspawned" }
Running == { w \in WorkerIds : wpc[w] = "run" }
InLoop(w) == wpc[w] \in {"lock", "recv", "run"}

\* C1: every job passed to execute is received at most once, by at most one
\* worker: no job occurs twice in the order of receipt, no two workers hold
\* the same job, a job that has ended (returned or panicked) is never held
\* again, and only jobs that were sent are received.
JobRunsAtMostOnce ==
  /\ \A i, j \in 1 .. Len(received) : i # j => received[i] # received[j]
  /\ \A v, w \in WorkerIds :
       (v # w /\ cur[v] # NoJob) => cur[v] # cur[w]
  /\ \A w \in WorkerIds : cur[w] \notin (completed \cup failed)
  /\ completed \cap failed = {}
  /\ Range(received) \subseteq Range(enqueued)

\* Three jobs have been received: one has returned and two workers are each
\* running one of the others.
JobRunsAtMostOnceWitness ==
  /\ Len(received) >= 3
  /\ Cardinality(Running) = 2
  /\ completed # {}

\* C2: when drop has returned, every job that was sent before the sender was
\* dropped has run to completion; none is still queued and none was
\* destroyed unrun, the ones queued at the time of closing included.
ShutdownAfterAllJobs ==
  mainPc = "returned" =>
    /\ Range(enqueued) \subseteq completed
    /\ queue = << >>
    /\ lost = {}
    /\ \A w \in WorkerIds : cur[w] = NoJob

\* drop returned although two jobs were still queued when the sender was
\* dropped.
ShutdownAfterAllJobsWitness ==
  /\ mainPc = "returned"
  /\ closedLen >= 2
  /\ Cardinality(completed) >= 2

\* C3: when drop has returned, every worker thread that was spawned has
\* terminated, no closure is running, no worker holds the lock, and every
\* Worker has been popped and joined.
ShutdownJoinsAllWorkers ==
  mainPc = "returned" =>
    /\ Spawned = 0 .. (size - 1)
    /\ \A w \in Spawned : Terminated(w)
    /\ Running = {}
    /\ lockHolder = NoWorker
    /\ workers = << >>

\* drop returned from a pool of two workers that had both run jobs.
ShutdownJoinsAllWorkersWitness ==
  /\ mainPc = "returned"
  /\ size >= 2
  /\ Cardinality(completed) >= 2

\* C4: a job whose closure panics does not terminate the worker that runs
\* it: after a job has failed no worker thread has ended by a panic, and no
\* job sent after the failing one is destroyed unrun.
FailedJobKeepsWorker ==
  failed # {} =>
    /\ \A w \in Spawned : wpc[w] # "panicked"
    /\ lost = {}

\* C5: a failing job is never a failure of the pool: after a job has failed,
\* drop still joins every worker and never ends by a panic.
JobFailureNotPoolFailure ==
  failed # {} => mainPc \in {"ready", "joining", "returned"}

\* C6: ThreadPool::new(0) panics before the channel, the Arc or any worker
\* thread exists, and no pool without workers is ever returned by new.
NewZeroFailsFast ==
  /\ mainPc = "new_panicked" =>
       /\ size = 0
       /\ ~channel
       /\ sender = "None"
       /\ rxRefs = 0
       /\ workers = << >>
       /\ Spawned = {}
  /\ (mainPc # "start" /\ size = 0) => mainPc = "new_panicked"
  /\ mainPc = "ready" => (size > 0 /\ Len(workers) > 0)

\* new was called with 0 and has panicked.
NewZeroFailsFastWitness ==
  /\ mainPc = "new_panicked"
  /\ size = 0

\* C7: new(N) returns a pool of exactly N workers, with ids 0..N-1, each a
\* thread of its own; at most N jobs are in execution at any time, so a
\* further job stays queued until a worker has finished its job.
ExactlyNWorkers ==
  /\ mainPc = "ready" =>
       /\ Len(workers) = size
       /\ \A i \in 1 .. Len(workers) : workers[i] = i - 1
       /\ Spawned = 0 .. (size - 1)
  /\ Cardinality(Running) <= size
  /\ Cardinality(Range(received) \ (completed \cup failed)) <= size
  /\ \A w \in Running : cur[w] \in Range(received) \ (completed \cup failed)

\* A pool of two workers runs two jobs at the same time while a third job
\* waits in the channel.
ExactlyNWorkersWitness ==
  /\ mainPc = "ready"
  /\ size = 2
  /\ Running = {0, 1}
  /\ Len(queue) = 1
  /\ completed = {} /\ failed = {}

\* C8: jobs are received in the order in which they were sent: the order of
\* receipt is a prefix of the send order, the channel holds the rest in
\* send order, and the send order keeps every producer's own call order.
FifoDequeue ==
  /\ Len(received) <= Len(enqueued)
  /\ \A i \in 1 .. Len(received) : received[i] = enqueued[i]
  /\ lost = {} =>
       queue = SubSeq(enqueued, Len(received) + 1, Len(enqueued))
  /\ \A i, j \in 1 .. Len(enqueued) :
       (i < j /\ enqueued[i].p = enqueued[j].p) => enqueued[i].n < enqueued[j].n

\* Two jobs of one producer have been received while a job of another
\* producer, sent between them, was received between them.
FifoDequeueWitness ==
  /\ Len(received) >= 3
  /\ received[1].p = received[3].p
  /\ received[2].p # received[1].p
  /\ Cardinality(Running) = 2

\* C9: a call of execute made after the sender has been taken panics in the
\* caller: the job is recorded as rejected, it is neither sent, received nor
\* run, and the calling thread ends by the panic instead of waiting.
LateExecuteReported ==
  \A j \in late :
    /\ j \in rejected
    /\ j \notin Range(enqueued)
    /\ j \notin Range(queue)
    /\ j \notin (completed \cup failed \cup lost)
    /\ ppc[j.p] = "panicked"
    /\ nsub[j.p] = j.n

\* execute was called while drop was waiting in join, with a job still
\* running.
LateExecuteReportedWitness ==
  /\ late # {}
  /\ mainPc = "joining"
  /\ Running # {}

\* C10: once drop has begun, it eventually returns with every worker having
\* left its loop through the Err of recv.
ShutdownEventuallyReturns ==
  (mainPc = "joining") ~>
     (mainPc = "returned" /\ \A w \in Spawned : wpc[w] = "done")

\* Once drop has begun it eventually ends, by returning or by the panic of
\* join().unwrap(): no worker and no join waits forever.
ShutdownEnds ==
  (mainPc = "joining") ~> (mainPc \in {"returned", "drop_panicked"})

\* Once drop has begun it returns unless some job has panicked.
ShutdownReturnsUnlessJobFailed ==
  (mainPc = "joining") ~> (mainPc = "returned" \/ failed # {})

\* C11: execute never blocks the caller: while the pool has not begun to
\* shut down, a call of execute by any thread can take its step in every
\* state, whatever the length of the channel, whoever holds the receiver
\* lock and whatever the workers are doing.  (The guard on TotalCalls is
\* the bound of the model on the number of calls.)
ExecuteNeverBlocks ==
  (mainPc = "ready" /\ TotalCalls < MaxJobs) =>
    \A p \in Producers, f \in BOOLEAN :
      ppc[p] = "ready" => ENABLED Execute(p, f)

\* Two calls of execute have completed while every worker was running a job
\* and a message was already queued.
ExecuteNeverBlocksWitness ==
  /\ mainPc = "ready"
  /\ Spawned # {}
  /\ Running = Spawned
  /\ Len(queue) >= 2

\* C12: under every interleaving of the producers, each job passed to
\* execute whose call did not panic is in the send order exactly once, the
\* channel holds exactly the sent jobs that have not been received (or
\* destroyed with the Receiver), each once, and every producer's jobs are
\* sent in the order of its calls, without a gap.
EnqueuedExactlyOnce ==
  /\ \A i, j \in 1 .. Len(enqueued) : i # j => enqueued[i] # enqueued[j]
  /\ Range(enqueued) = called \ rejected
  /\ Range(queue) \cup Range(received) \cup lost = Range(enqueued)
  /\ Len(queue) + Len(received) + Cardinality(lost) = Len(enqueued)
  /\ \A j \in 1 .. Len(enqueued) :
       enqueued[j].n > 1 =>
         \E i \in 1 .. (j - 1) :
           /\ enqueued[i].p = enqueued[j].p
           /\ enqueued[i].n = enqueued[j].n - 1

\* Two producers have interleaved three calls and all three jobs are queued.
EnqueuedExactlyOnceWitness ==
  /\ Len(enqueued) = 3
  /\ queue = enqueued
  /\ enqueued[1].p # enqueued[2].p
  /\ enqueued[3].p = enqueued[1].p

\* C13: a worker thread has terminated only if its receive reported
\* permanent closure: whenever a worker has terminated, the sender has been
\* dropped and the channel holds no job.
WorkerEndsOnlyOnClosure ==
  \A w \in Spawned :
    Terminated(w) => (sender = "None" /\ queue = << >>)

\* A worker that has left its loop through the break has seen the channel
\* empty with the sender dropped.
BreakOnlyOnClosure ==
  \A w \in Spawned :
    wpc[w] = "done" => (sender = "None" /\ queue = << >>)

\* C14: a worker that is running a job is never made to stop: it leaves the
\* job only by the return of the closure, back to the top of its loop, and
\* terminates only from a later receive.
RunningJobEndsByReturn ==
  [][\A w \in WorkerIds :
       wpc[w] = "run" => (wpc'[w] \in {"run", "lock"} /\ ~Terminated(w)')]_vars

\* No step of drop (taking the sender, a join, the return) changes the
\* position of a worker, the job it holds or the outcome of a job.
ShutdownNeverInterrupts ==
  [][(mainPc \in {"ready", "joining", "returned"}
        /\ (mainPc' # mainPc \/ workers' # workers \/ joinsLeft' # joinsLeft))
      => UNCHANGED << wpc, cur, queue, completed, failed, lost >>]_vars

\* C15: drop closes the submission side before it waits for any worker,
\* and the channel is closed once and for all: the sender is in place from
\* the creation of the channel until drop is entered, it is gone from then
\* on, and no worker has been popped or joined while it is in place.
ClosedBeforeAnyJoin ==
  /\ (channel /\ dropRuns = 0) => sender = "Some"
  /\ dropRuns >= 1 => sender = "None"
  /\ (dropRuns >= 1) <=> (mainPc \in {"joining", "returned", "drop_panicked"})
  /\ sender = "Some" =>
       /\ mainPc \in {"spawning", "ready"}
       /\ mainPc = "ready" => (Len(workers) = size /\ joinsLeft = 0)
       /\ closedLen = 0

\* drop has joined one worker of two and is waiting for the other, with the
\* sender gone.
ClosedBeforeAnyJoinWitness ==
  /\ mainPc = "joining"
  /\ size = 2
  /\ Len(workers) = 1
  /\ sender = "None"
  /\ ~Terminated(0)

\* The sender, once gone, never comes back.
NeverReopened ==
  [][(channel /\ sender = "None") => sender' = "None"]_vars

\* A worker that is in its loop and not running a job: it waits for the
\* lock or is in recv.
Idle == { w \in WorkerIds : wpc[w] \in {"lock", "recv"} }

\* C16: whenever a job is queued and some worker is idle, a worker
\* eventually receives a job from the channel, whatever the running jobs
\* do: no worker stays at the lock or in recv forever while a job is queued.
QueuedJobIsDequeued ==
  \A k \in 0 .. MaxJobs :
    (Len(received) = k /\ queue # << >> /\ Idle # {}) ~> (Len(received) > k)

\* A worker has received the queued job while the other worker was running
\* a job that has not returned.
QueuedJobIsDequeuedWitness ==
  /\ size = 2
  /\ Running = {0, 1}
  /\ Len(received) = 2
  /\ completed = {} /\ failed = {}
  /\ queue # << >>

\* The safety half of C16: whenever a job is queued and a worker is idle,
\* some worker can take the lock or can return from recv with a job.
IdleWorkerCanProceed ==
  (queue # << >> /\ Idle # {}) =>
    \E w \in Idle : ENABLED Lock(w) \/ ENABLED Recv(w)

\* Jobs that have been received and whose closure has neither returned nor
\* panicked.
InExecution == Range(received) \ (completed \cup failed)

\* C17: a job is only handed to an idle worker: a worker holds a job exactly
\* while it runs it, every job in execution is held by exactly one running
\* worker, and a worker can return from recv only while it holds no job.
OneJobPerWorker ==
  /\ \A w \in WorkerIds : (wpc[w] = "run") <=> (cur[w] # NoJob)
  /\ \A w \in Running : cur[w] \in InExecution
  /\ \A j \in InExecution : \E w \in Running : cur[w] = j
  /\ Cardinality(InExecution) = Cardinality(Running)
  /\ \A w \in WorkerIds : ENABLED Recv(w) => cur[w] = NoJob

\* The only worker of a pool of size 1 runs its second job, after the first
\* has returned, while a third job waits in the channel.
OneJobPerWorkerWitness ==
  /\ size = 1
  /\ Running = {0}
  /\ Cardinality(completed) = 1
  /\ Len(received) = 2
  /\ Len(queue) = 1

\* C18: from the return of new(N) until drop is entered, the pool owns
\* exactly N workers and each of them is in its loop, receiving or running a
\* job.
FixedRunningWorkers ==
  mainPc = "ready" =>
    /\ Len(workers) = size
    /\ Spawned = 0 .. (size - 1)
    /\ \A w \in Spawned : InLoop(w)

\* C19: a further run of the body of drop on a pool that drop has already
\* shut down is a no-op: the sender is already None, the worker list is
\* empty so the loop body (pop, join) never runs, every worker stays
\* terminated, and the run ends by returning, never by a panic.
SecondDropIsNoOp ==
  dropRuns >= 2 =>
    /\ sender = "None"
    /\ workers = << >>
    /\ joinsLeft = 0
    /\ ~ENABLED Join
    /\ mainPc \in {"joining", "returned"}
    /\ \A w \in Spawned : wpc[w] = "done"
    /\ queue = << >> /\ lost = {} /\ failed = {}

\* The body of drop has run twice on a pool of two workers that had run
\* jobs, and has returned.
SecondDropIsNoOpWitness ==
  /\ dropRuns = 2
  /\ mainPc = "returned"
  /\ size = 2
  /\ completed # {}

\* The steps of a further run of drop change nothing but the position of
\* the owner thread and the count of runs.
SecondDropChangesNothing ==
  [][(dropRuns' >= 2 /\ (mainPc' # mainPc \/ dropRuns' # dropRuns))
      => UNCHANGED << size, channel, sender, workers, joinsLeft, closedLen,
                      queue, rxRefs, lockHolder, poisoned, wpc, cur,
                      prodVars, histVars >>]_vars

\* Jobs whose closure has ended, by return or by panic.
Ended == completed \cup failed

\* Jobs sent before the job at position j of the send order that have not
\* ended.
Overtaken(j) == { i \in 1 .. (j - 1) : enqueued[i] \notin Ended }

\* C20: only the order of receipt is fixed.  Jobs are received in send
\* order, and a job may end before jobs sent earlier, but only before ones
\* that other workers are still running: with N workers a job that has ended
\* has overtaken at most N - 1 earlier jobs, so the order of completion can
\* differ from the send order only with two or more workers.
OnlyDequeueOrderFixed ==
  /\ \A i \in 1 .. Len(received) : received[i] = enqueued[i]
  /\ \A j \in 1 .. Len(enqueued) :
       enqueued[j] \in Ended =>
         /\ Overtaken(j) \subseteq { i \in 1 .. Len(enqueued) :
                                      \E w \in Running : cur[w] = enqueued[i] }
         /\ Cardinality(Overtaken(j)) <= size - 1

\* Of two jobs sent by one producer, the second has returned while the
\* first, received by worker 1, is still running.
OnlyDequeueOrderFixedWitness ==
  /\ Len(enqueued) >= 2
  /\ enqueued[1].p = enqueued[2].p
  /\ enqueued[2] \in completed
  /\ enqueued[1] \notin Ended
  /\ cur[1] = enqueued[1]

\* Worker w is running the job at position i of the send order.
WorkerRunsJob(w, i) ==
  /\ Len(enqueued) >= i
  /\ cur[w] = enqueued[i]

\* C21: the accept driver calls execute exactly once per accepted
\* connection, in accept order, and keeps no queue of its own: it holds at
\* most one stream that is not yet in a job, the k-th job passed to execute
\* closes over the k-th accepted connection, whenever the driver is back at
\* incoming() after k accepted connections exactly k jobs have been passed
\* to the pool, no other thread submits, and the channel receives the jobs
\* in accept order.
OneJobPerConnection ==
  /\ Len(accepted) - nsub[Driver] \in {0, 1}
  /\ called = { [p |-> Driver, n |-> k, fails |-> accepted[k]] :
                  k \in 1 .. nsub[Driver] }
  /\ ~StreamHeld => TotalCalls = Len(accepted)
  /\ \A p \in Producers : p # Driver => nsub[p] = 0
  /\ \A i \in 1 .. Len(enqueued) :
       enqueued[i] = [p |-> Driver, n |-> i, fails |-> accepted[i]]

\* Three connections have been accepted, the second of them one whose
\* handler panics, all three jobs have been sent, and the driver is back at
\* incoming().
OneJobPerConnectionWitness ==
  /\ Len(accepted) = 3
  /\ accepted[2] /\ ~accepted[1]
  /\ Len(enqueued) = 3
  /\ ~StreamHeld
  /\ ppc[Driver] = "ready"

\* The poisoned-lock path of a worker: lock() has returned Err and expect
\* has panicked.  Every worker that has ended by a panic is accounted for by
\* a job that panicked, so no worker has ended on this path.
PoisonPathTaken ==
  Cardinality({ w \in WorkerIds : wpc[w] = "panicked" }) > Cardinality(failed)

\* C23: the receiver lock is never held while a job runs.  A worker holds
\* the guard exactly while it is in recv, at most one worker is there at a
\* time, no running worker holds it, and so a running job never keeps the
\* others from the channel: while a job runs and another is queued, some
\* idle worker can take the lock (it is free) or return from recv (it holds
\* the lock and a job is queued).
LockNotHeldWhileRunning ==
  /\ \A w \in Running : lockHolder # w
  /\ \A w \in WorkerIds : (lockHolder = w) <=> (wpc[w] = "recv")
  /\ Cardinality({ w \in WorkerIds : wpc[w] = "recv" }) <= 1
  /\ (Running # {} /\ queue # << >> /\ Idle # {}) =>
       \E w \in Idle : \/ wpc[w] = "lock" /\ lockHolder = NoWorker
                       \/ wpc[w] = "recv" /\ lockHolder = w

\* Worker 0 still runs the first job sent; meanwhile worker 1 has received
\* and finished the second job and holds the lock again, with the third job
\* queued.
LockNotHeldWhileRunningWitness ==
  /\ Len(enqueued) = 3
  /\ cur[0] = enqueued[1]
  /\ enqueued[2] \in completed
  /\ lockHolder = 1
  /\ queue = << enqueued[3] >>

\* C24: the receiver mutex is never poisoned.  No worker holds the guard
\* when its job ends, whether by return or by panic, and no worker has taken
\* the poisoned-lock path, whatever jobs were submitted and however many of
\* them panicked.
MutexNeverPoisoned ==
  /\ ~poisoned
  /\ ~PoisonPathTaken
  /\ \A w \in WorkerIds : wpc[w] = "run" => lockHolder # w

\* A job has panicked and ended its worker; afterwards the other worker has
\* taken the lock, received a job and is running it.
MutexNeverPoisonedWitness ==
  /\ wpc[0] = "panicked"
  /\ failed # {}
  /\ wpc[1] = "run"
  /\ Len(received) >= 2
  /\ received[1] \in failed
  /\ cur[1] = received[2]

\* new has returned, the pool still holds its sender, and every worker
\* thread has terminated.
AllWorkersGone ==
  /\ mainPc = "ready"
  /\ sender = "Some"
  /\ \A w \in Spawned : Terminated(w)

\* C25: once every worker thread has terminated while the pool still holds
\* its sender, each worker has been ended by a panicking job, the Receiver
\* and the jobs that were queued are gone, and every call of execute from
\* then on panics in its caller and sends nothing: the job is rejected and
\* neither the channel nor the send order changes.
ExecuteFailsWithoutWorkers ==
  [][AllWorkersGone =>
       /\ \A w \in Spawned : wpc[w] = "panicked"
       /\ Cardinality(failed) = size
       /\ rxRefs = 0
       /\ queue = << >>
       /\ called' # called =>
            /\ UNCHANGED << queue, enqueued >>
            /\ \E j \in called' \ called :
                 /\ rejected' = rejected \cup {j}
                 /\ ppc[j.p] = "ready"
                 /\ ppc'[j.p] = "panicked"]_vars

\* Both workers of a pool of two have been ended by panicking jobs, and a
\* call of execute made afterwards, with the sender still in place, has
\* panicked.
ExecuteFailsWithoutWorkersWitness ==
  /\ AllWorkersGone
  /\ size = 2
  /\ Cardinality(failed) = 2
  /\ rejected # {}
  /\ late = {}

\* C26: a successful execute changes only the channel: it appends exactly
\* the submitted job at the tail and leaves the workers, their positions and
\* jobs, the lock, the sender and the Receiver as they are; and the end of a
\* job's execution changes neither the channel nor any other worker.
ExecuteChangesOnlyQueue ==
  [][/\ enqueued' # enqueued =>
          /\ \E j \in called' \ called :
               /\ queue' = Append(queue, j)
               /\ enqueued' = Append(enqueued, j)
          /\ UNCHANGED << poolVars, histVars, rxRefs, lockHolder, poisoned,
                          wpc, cur, ppc, rejected >>
     /\ \A w \in WorkerIds :
          (wpc[w] = "run" /\ wpc'[w] # "run") =>
            /\ queue' = queue
            /\ \A v \in WorkerIds \ {w} : wpc'[v] = wpc[v] /\ cur'[v] = cur[v]
    ]_vars

\* The frame of a successful execute alone.
SuccessfulExecuteFrame ==
  [][enqueued' # enqueued =>
       /\ \E j \in called' \ called :
            /\ queue' = Append(queue, j)
            /\ enqueued' = Append(enqueued, j)
       /\ UNCHANGED << poolVars, histVars, rxRefs, lockHolder, poisoned,
                       wpc, cur, ppc, rejected >>]_vars

\* A job whose closure returns changes neither the channel nor any other
\* worker; a job that panics changes no other worker, and changes the
\* channel only by destroying it with the last worker.
JobEndFrame ==
  [][\A w \in WorkerIds :
       (wpc[w] = "run" /\ wpc'[w] # "run") =>
         /\ \A v \in WorkerIds \ {w} : wpc'[v] = wpc[v] /\ cur'[v] = cur[v]
         /\ (queue' = queue \/ (wpc'[w] = "panicked" /\ rxRefs' = 0))]_vars

\* The method called by the last step on the post.
LastOp == postOps[Len(postOps)]

\* C27: after any sequence of add_text, request_review, approve and reject,
\* content() returns the empty string unless the post is Published, and in
\* Published it returns exactly the texts passed to add_text while the post
\* was a Draft, in call order.
ContentOnlyWhenPublished ==
  /\ postState # "Published" => PostContent = << >>
  /\ postState = "Published" => PostContent = drafted

\* The post is Published with two texts added as a Draft and a third one
\* passed to add_text during review.
ContentOnlyWhenPublishedWitness ==
  /\ postState = "Published"
  /\ Len(drafted) = 2
  /\ dropped # {}
  /\ PostContent = drafted

\* C28: add_text changes the stored content only while the post is a Draft,
\* where it appends the text; in PendingReview and in Published it leaves
\* content and state unchanged.  No other method changes the content, so a
\* text passed to add_text outside Draft never appears in the content,
\* whatever is called later.
AddTextOnlyInDraft ==
  [][/\ LastOp' = "add_text" =>
          /\ postState' = postState
          /\ postState = "Draft" => postContent' = postContent \o NextText
          /\ postState # "Draft" => postContent' = postContent
     /\ LastOp' # "add_text" => postContent' = postContent
     /\ \A t \in dropped' : t \notin Range(postContent')]_vars

\* The run of blog_post_oop: a text added as a Draft, a second one added
\* during review, then reject, request_review and approve; the published
\* content is the first text alone.
AddTextOnlyInDraftWitness ==
  /\ postOps = << "add_text", "request_review", "add_text", "reject",
                  "request_review", "approve" >>
  /\ postState = "Published"
  /\ PostContent = << 1 >>
  /\ dropped = {3}

\* C29: the state of the post changes only by request_review from Draft to
\* PendingReview, by approve from PendingReview to Published and by reject
\* from PendingReview to Draft.  Every other call leaves it as it is,
\* Published is never left, a post is Published only after an approve made
\* in PendingReview, and the state field is never left empty by a call.
PostTransitions ==
  [][/\ postState' # postState =>
          \/ /\ postState = "Draft"
             /\ postState' = "PendingReview"
             /\ LastOp' = "request_review"
          \/ /\ postState = "PendingReview"
             /\ postState' = "Published"
             /\ LastOp' = "approve"
          \/ /\ postState = "PendingReview"
             /\ postState' = "Draft"
             /\ LastOp' = "reject"
     /\ postState = "Published" => postState' = "Published"
     /\ postState' = "Published" => reviewed'
     /\ postState' \in PostStates]_vars

\* The post has been through review twice: rejected once, then approved,
\* and calls made on the Published post have left it Published.
PostTransitionsWitness ==
  /\ Len(postOps) = 6
  /\ SubSeq(postOps, 1, 4) =
       << "request_review", "reject", "request_review", "approve" >>
  /\ postOps[5] = "reject"
  /\ postOps[6] = "request_review"
  /\ postState = "Published"

\* The spawned thread has stopped: it has left its loop, or the process has
\* ended around it.
PrinterStopped == tlPc \in {"done", "killed"}

ProcessExited == mlPc \in {"exit0", "exit1"}

\* The letters of a sequence of messages, in order.
RECURSIVE LettersOf(_)
LettersOf(ms) ==
  IF ms = << >>
    THEN << >>
    ELSE IF Head(ms) = Cancel
           THEN LettersOf(Tail(ms))
           ELSE << Head(ms) >> \o LettersOf(Tail(ms))

IsPrefix(a, b) == Len(a) <= Len(b) /\ a = SubSeq(b, 1, Len(a))

\* C30: the word-printer thread stops exactly when it receives Cancel or
\* finds the channel disconnected: whenever it has stopped it has received
\* Cancel (the Sender is never dropped), the letters it applies are the
\* letters sent, in send order, all of them applied by the time it stops,
\* and when the process has exited after the Cancel the thread has left its
\* loop.
PrinterStopsOnCancel ==
  /\ PrinterStopped => (gotCancel \/ TxDropped)
  /\ IsPrefix(applied, LettersOf(sentMsgs))
  /\ PrinterStopped => applied = LettersOf(sentMsgs)
  /\ ProcessExited => tlPc = "done"

\* What holds on every path: the thread leaves its loop only by receiving
\* Cancel, having applied every letter sent, letters are applied in send
\* order, and send never fails.  On the path of main_loop that sleeps before
\* it exits, the thread has left its loop when exit(0) is called; the
\* thread is ended inside its loop only by exit(1).
PrinterStopsBeforeExitZero ==
  /\ tlPc = "done" => (gotCancel /\ applied = LettersOf(sentMsgs))
  /\ IsPrefix(applied, LettersOf(sentMsgs))
  /\ mlPc = "exit0" => tlPc = "done"
  /\ tlPc = "killed" => mlPc = "exit1"
  /\ mlPc # "panicked"

\* At most one word is printed after the Cancel has been sent: the one
\* whose empty poll came before the send.
AtMostOneLateWord == lateWords <= 1

\* Once the thread has left its loop no word is printed and no letter is
\* applied.
NoWordAfterStop ==
  [][PrinterStopped => UNCHANGED << words, applied, firstLetter >>]_vars

\* Once main_loop sleeps after the Cancel, the thread leaves its loop.
NapLetsPrinterStop == (mlPc = "nap") ~> (tlPc = "done")

\* Once the Cancel has been sent, the thread leaves its loop.  This fails
\* under FairPrinterSpec on the path of exit(1), where the process ends
\* right after the send.
CancelStopsPrinter == CancelSent ~> (tlPc = "done")

====
